---- MODULE Spec2Model ----
(***************************************************************************)
(* MoodSync: weekly mood statistics, insight scoring and the MoodInsight   *)
(* store, modelled from app/components/insights/MoodInsights.tsx and       *)
(* amplify/data/resource.ts; the mood form (AddMoodEntry), the friends     *)
(* list and friend search (social/FindFriends.tsx) and the mood feed       *)
(* (mood/MoodFeed.tsx), each under a specification of its own.             *)
(*                                                                         *)
(* Conventions.  A calendar date is a day number; day 0 is a Monday.  An   *)
(* instant is a number of hours since 00:00 UTC of day 0.  A time zone is  *)
(* its offset from UTC in hours (local = UTC + tz).  averageIntensity is   *)
(* kept in tenths (5.7 is 57).  moodDistribution is the sequence of        *)
(* <<moodType, count>> pairs in key insertion order, as Object.entries     *)
(* enumerates a JavaScript object.                                         *)
(***************************************************************************)
EXTENDS Integers, Sequences, FiniteSets, TLC

VARIABLES
    now,                \* the clock: hours since 00:00 UTC of day 0
    moodStore,          \* Mood table, in the order Mood.list returns it
    insightStore,       \* MoodInsight table: a set of records
    tz,                 \* per session: time zone offset of the browser
    currentUserId,      \* per session: MoodInsights.currentUserId
    pendingLoads,       \* per session: loaders of initialize() not yet settled
    isLoading,          \* per session: MoodInsights.isLoading
    weeklyStats,        \* per session: MoodInsights.weeklyStats (or Null)
    insights,           \* per session: MoodInsights.insights
    currentWeekInsight, \* per session: MoodInsights.currentWeekInsight (or Null)
    isGenerating,       \* per session: MoodInsights.isGenerating
    inflight,           \* per session: settled MoodInsight.create awaiting its continuation
    alert,              \* per session: the last alert() shown
    fnArg,              \* argument of a function evaluated on its own
    fnRet,              \* its result
    friendshipStore,    \* Friendship table: a set of records
    friendsList,        \* per user: the state of their FriendsList component
    findFriends,        \* the state of a FindFriends component
    feedStore,          \* Mood table read by the feed
    moodFeed            \* the state of a MoodFeed component

vars == <<now, moodStore, insightStore, tz, currentUserId, pendingLoads,
          isLoading, weeklyStats, insights, currentWeekInsight, isGenerating,
          inflight, alert, fnArg, fnRet, friendshipStore, friendsList,
          findFriends, feedStore, moodFeed>>

socialVars == <<friendshipStore, friendsList, findFriends, feedStore, moodFeed>>

\* ---------------------------------------------------------------- bounds
MaxMoods == 2       \* Mood records in the store
MaxTicks == 2       \* clock advances in a behaviour
MaxEntries == 4     \* length of an entry list given to the statistics
MaxStored == 3      \* length of a Mood table given to the weekly query
MaxIdLen == 2       \* length of a user id given to the friendshipId round trip
MaxCalls == 2       \* calls of the FriendsList components in flight at once
MaxRequests == 2    \* requests of the FindFriends component in flight at once
MaxPosted == 2      \* Mood records posted while a MoodFeed is mounted
MaxShown == 2       \* length of the MoodFeed list at which no further load is started
MaxLoads == 1       \* loadMoods requests of the MoodFeed in flight at once

\* ------------------------------------------------------------- constants
Null == [isNull |-> TRUE]

MoodTypes == <<"HAPPY", "SAD", "ENERGETIC", "CALM", "ANXIOUS">>
MoodTypeSet == {MoodTypes[i] : i \in 1..Len(MoodTypes)}
TotalMoodTypes == 5
MinIntensity == 1
MaxIntensity == 10
DaysPerWeek == 7
HoursPerDay == 24

Users == {"u1", "u2"}
Sessions == {"s1", "s2"}
\* the account signed in in each browser session: two sessions of one user
SignedIn == [s \in Sessions |-> "u1"]

\* ------------------------------------------------------------ arithmetic
Max(a, b) == IF a > b THEN a ELSE b
Min(a, b) == IF a < b THEN a ELSE b

\* Math.floor in place of Math.round
MathRoundTruncating(p, q) == p \div q

\* Math.round(p / q) for p >= 0, q > 0: the nearest integer, a half rounds up.
MathRound(p, q) == (2 * p + q) \div (2 * q)

RECURSIVE SumIntensity(_)
SumIntensity(moods) ==
    IF moods = <<>> THEN 0
    ELSE moods[1].intensity + SumIntensity(Tail(moods))

\* ------------------------------------------------------ weekly statistics
\* acc[mood.moodType] = (acc[mood.moodType] || 0) + 1, keys in insertion order
\* "|| 1" in place of "|| 0": a first occurrence is counted twice
RECURSIVE CountIntoFromOne(_, _)
CountIntoFromOne(acc, moods) ==
    IF moods = <<>> THEN acc
    ELSE LET t == moods[1].moodType
             hit == {i \in 1..Len(acc) : acc[i][1] = t}
         IN  IF hit = {}
             THEN CountIntoFromOne(Append(acc, <<t, 2>>), Tail(moods))
             ELSE CountIntoFromOne([i \in 1..Len(acc) |->
                               IF i \in hit THEN <<t, acc[i][2] + 1>> ELSE acc[i]],
                            Tail(moods))

RECURSIVE CountInto(_, _)
CountInto(acc, moods) ==
    IF moods = <<>> THEN acc
    ELSE LET t == moods[1].moodType
             hit == {i \in 1..Len(acc) : acc[i][1] = t}
         IN  IF hit = {}
             THEN CountInto(Append(acc, <<t, 1>>), Tail(moods))
             ELSE CountInto([i \in 1..Len(acc) |->
                               IF i \in hit THEN <<t, acc[i][2] + 1>> ELSE acc[i]],
                            Tail(moods))

\* moods.length in place of the size of the set of dates
calculateMoodStreakCountingEntries(moods) == Len(moods)

calculateMoodStreak(moods) ==
    Cardinality({moods[i].date : i \in 1..Len(moods)})

\* "totalMoods > 1" in place of "totalMoods > 0"
WeeklyStatsOfGuardOffByOne(moods) ==
    LET totalMoods == Len(moods)
    IN  [totalMoods |-> totalMoods,
         averageIntensity |->
             IF totalMoods > 1
             THEN MathRound(10 * SumIntensity(moods), totalMoods)
             ELSE 0,
         moodDistribution |-> CountInto(<<>>, moods),
         moodStreak |-> calculateMoodStreak(moods)]

\* the object passed to setWeeklyStats for the list `moods`
WeeklyStatsOf(moods) ==
    LET totalMoods == Len(moods)
    IN  [totalMoods |-> totalMoods,
         averageIntensity |->
             IF totalMoods > 0
             THEN MathRound(10 * SumIntensity(moods), totalMoods)
             ELSE 0,
         moodDistribution |-> CountInto(<<>>, moods),
         moodStreak |-> calculateMoodStreak(moods)]

\* ------------------------------------------------------------ week start
\* Date.getDay(): 0 is Sunday, 1 is Monday, ..., 6 is Saturday
GetDay(day) == (day + 1) % DaysPerWeek

LocalDay(t, z) == (t + z) \div HoursPerDay

\* toISOString().split('T')[0] of an instant: its UTC calendar date
ISODate(t) == t \div HoursPerDay

\* the instant of local midnight of the day getCurrentWeekStart returns
getCurrentWeekStart(t, z) ==
    LET today == LocalDay(t, z)
        monday == today - GetDay(today) + 1
    IN  monday * HoursPerDay - z

WeekStartDate(t, z) == ISODate(getCurrentWeekStart(t, z))
WeekEndDate(t, z) == ISODate(getCurrentWeekStart(t, z) + 6 * HoursPerDay)

\* ---------------------------------------------------------------- scoring
NumMoodTypes(stats) == Len(stats.moodDistribution)

\* "> 7" in place of ">= 7"
IntensityAdjustedStrict(stats, score) ==
    IF stats.averageIntensity > 70 THEN score + 2
    ELSE IF stats.averageIntensity >= 50 THEN score + 1
    ELSE IF stats.averageIntensity <= 30 THEN score - 2
    ELSE score

\* ">= 4" in place of ">= 5"
IntensityAdjustedFromFour(stats, score) ==
    IF stats.averageIntensity >= 70 THEN score + 2
    ELSE IF stats.averageIntensity >= 40 THEN score + 1
    ELSE IF stats.averageIntensity <= 30 THEN score - 2
    ELSE score

IntensityAdjusted(stats, score) ==
    IF stats.averageIntensity >= 70 THEN score + 2
    ELSE IF stats.averageIntensity >= 50 THEN score + 1
    ELSE IF stats.averageIntensity <= 30 THEN score - 2
    ELSE score

\* "+ 2" in place of "+ 1" for four or more mood types
DiversityAdjustedByTwo(stats, score) ==
    LET moodDiversity == NumMoodTypes(stats)
        s1 == IF moodDiversity >= 4 THEN score + 2 ELSE score
    IN  IF moodDiversity <= 2 THEN s1 - 1 ELSE s1

DiversityAdjusted(stats, score) ==
    LET moodDiversity == NumMoodTypes(stats)
        s1 == IF moodDiversity >= 4 THEN score + 1 ELSE score
    IN  IF moodDiversity <= 2 THEN s1 - 1 ELSE s1

ConsistencyAdjusted(stats, score) ==
    IF stats.moodStreak >= 6 THEN score + 1
    ELSE IF stats.moodStreak <= 2 THEN score - 1
    ELSE score

\* the value of `score` when calculateWeeklyScore reaches its return statement
ScoreBeforeClamp(stats) ==
    ConsistencyAdjusted(stats, DiversityAdjusted(stats, IntensityAdjusted(stats, 5)))

\* an early "return 0" for a week without entries
calculateWeeklyScoreZeroWhenEmpty(stats) ==
    IF stats = Null THEN 5
    ELSE IF stats.totalMoods = 0 THEN 0
    ELSE Max(1, Min(10, ConsistencyAdjusted(stats,
                            DiversityAdjusted(stats, IntensityAdjusted(stats, 5)))))

calculateWeeklyScore(stats) ==
    IF stats = Null THEN 5
    ELSE Max(1, Min(10, ScoreBeforeClamp(stats)))

\* the thresholds of the score (<= 3) in place of the trend's own (<= 4)
getOverallTrendScoreBands(stats) ==
    IF stats = Null THEN "neutral"
    ELSE IF stats.averageIntensity >= 70 THEN "positive"
    ELSE IF stats.averageIntensity <= 30 THEN "challenging"
    ELSE "stable"

getOverallTrend(stats) ==
    IF stats = Null THEN "neutral"
    ELSE IF stats.averageIntensity >= 70 THEN "positive"
    ELSE IF stats.averageIntensity <= 40 THEN "challenging"
    ELSE "stable"

\* Object.entries(moodDistribution).reduce((a, b) => a[1] > b[1] ? a : b)[0]
\* (the list is non-empty: reduce of an empty array without an initial value throws)
\* "<" in place of ">"
RECURSIVE ReduceMaxInverted(_, _)
ReduceMaxInverted(a, rest) ==
    IF rest = <<>> THEN a
    ELSE LET b == rest[1]
         IN  ReduceMaxInverted(IF a[2] < b[2] THEN a ELSE b, Tail(rest))

RECURSIVE ReduceMax(_, _)
ReduceMax(a, rest) ==
    IF rest = <<>> THEN a
    ELSE LET b == rest[1]
         IN  ReduceMax(IF a[2] > b[2] THEN a ELSE b, Tail(rest))

DominantMood(stats) ==
    ReduceMax(stats.moodDistribution[1], Tail(stats.moodDistribution))[1]

\* ------------------------------------------------------ MoodInsight store
\* MoodInsight has identifier ["userId", "weekStartDate"]: a create whose key
\* is already present is rejected by the table.
\* a table keyed by a generated id: no create is ever rejected
KeyExistsNoIdentifier(store, rec) == FALSE

KeyExists(store, rec) ==
    \E r \in store : r.userId = rec.userId /\ r.weekStartDate = rec.weekStartDate

\* MoodInsight.list({ filter: { userId: { eq: targetUserId } } })
ListInsights(store, targetUserId) == {r \in store : r.userId = targetUserId}

\* result.data.sort((a, b) => Date(b.weekStartDate) - Date(a.weekStartDate))
RECURSIVE SortByWeekDesc(_)
SortByWeekDesc(S) ==
    IF S = {} THEN <<>>
    ELSE LET r == CHOOSE x \in S : \A y \in S : x.weekStartDate >= y.weekStartDate
         IN  <<r>> \o SortByWeekDesc(S \ {r})

\* sortedInsights.find(insight => insight.weekStartDate === currentWeek)
FindWeek(list, week) ==
    LET hit == {i \in 1..Len(list) : list[i].weekStartDate = week}
    IN  IF hit = {} THEN Null
        ELSE list[CHOOSE i \in hit : \A j \in hit : i <= j]

\* "lt" in place of "le" for the end of the week
InMoodFilterEndExclusive(m, targetUserId, t, z) ==
    /\ m.userId = targetUserId
    /\ m.date >= WeekStartDate(t, z)
    /\ m.date < WeekEndDate(t, z)

\* Mood.list({ filter: { and: [userId eq, date ge weekStart, date le weekEnd] } })
InMoodFilter(m, targetUserId, t, z) ==
    /\ m.userId = targetUserId
    /\ m.date >= WeekStartDate(t, z)
    /\ m.date <= WeekEndDate(t, z)

ListWeekMoods(store, targetUserId, t, z) ==
    SelectSeq(store, LAMBDA m : InMoodFilter(m, targetUserId, t, z))

\* --------------------------------------------------------- recommendations
\* the sentences of generateMockRecommendations; a text is the sequence of the
\* sentences that join(' ') puts together, the empty string is <<>>
BreathingSentence == "Consider practicing deep breathing exercises or meditation to help manage anxiety levels."
SupportSentence == "Try engaging in activities that bring you joy, or reach out to friends and family for support."
SharingSentence == "Great job maintaining positive energy! Consider sharing your happiness with others."
ChannelSentence == "Channel your energy into productive activities or creative pursuits."
ReflectionSentence == "Your calm state is wonderful for reflection and planning. Use this time for goal setting."
TrackDailySentence == "Try to track your mood daily for better insights into your emotional patterns."
KeepUpSentence == "Keep up the great work with mood tracking! Consistency helps build emotional awareness."

MoodSentence(stats, dominantMood) ==
    IF dominantMood = "ANXIOUS" /\ stats.averageIntensity > 60 THEN <<BreathingSentence>>
    ELSE IF dominantMood = "SAD" /\ stats.averageIntensity > 50 THEN <<SupportSentence>>
    ELSE IF dominantMood = "HAPPY" /\ stats.averageIntensity > 70 THEN <<SharingSentence>>
    ELSE IF dominantMood = "ENERGETIC" THEN <<ChannelSentence>>
    ELSE IF dominantMood = "CALM" THEN <<ReflectionSentence>>
    ELSE <<>>

\* "<= 3" in place of "< 3"
generateMockRecommendationsUpToThree(stats, dominantMood) ==
    IF stats = Null THEN <<>>
    ELSE LET recommendations ==
                 MoodSentence(stats, dominantMood)
                    \o (IF stats.moodStreak <= 3 THEN <<TrackDailySentence>> ELSE <<>>)
         IN  IF recommendations = <<>> THEN <<KeepUpSentence>> ELSE recommendations

generateMockRecommendations(stats, dominantMood) ==
    IF stats = Null THEN <<>>
    ELSE LET recommendations ==
                 MoodSentence(stats, dominantMood)
                    \o (IF stats.moodStreak < 3 THEN <<TrackDailySentence>> ELSE <<>>)
         IN  IF recommendations = <<>> THEN <<KeepUpSentence>> ELSE recommendations

\* ------------------------------------------------------------ insight text
\* MOOD_TYPES[dominantMood].label.toLowerCase()
MoodLabel(m) ==
    CASE m = "HAPPY" -> "happy"
      [] m = "SAD" -> "sad"
      [] m = "ENERGETIC" -> "energetic"
      [] m = "CALM" -> "calm"
      [] m = "ANXIOUS" -> "anxious"

\* stats.moodDistribution[dominantMood]
CountOf(dist, m) ==
    LET hit == {i \in 1..Len(dist) : dist[i][1] = m}
    IN  dist[CHOOSE i \in hit : TRUE][2]

\* 'moderate' only up to 6.0, 'mild' for the rest below 7
IntensityWordModerateToSix(stats) ==
    IF stats.averageIntensity >= 70 THEN "strong"
    ELSE IF stats.averageIntensity >= 50 /\ stats.averageIntensity <= 60 THEN "moderate"
    ELSE "mild"

\* averageIntensity >= 7 ? 'strong' : averageIntensity >= 5 ? 'moderate' : 'mild'
IntensityWord(stats) ==
    IF stats.averageIntensity >= 70 THEN "strong"
    ELSE IF stats.averageIntensity >= 50 THEN "moderate"
    ELSE "mild"

\* the text is held as the values interpolated into its four sentences; the
\* empty string is <<>>
generateMockAIInsights(stats, dominantMood) ==
    IF stats = Null THEN <<>>
    ELSE [moodLabel |-> MoodLabel(dominantMood),
          percent |-> MathRound(100 * CountOf(stats.moodDistribution, dominantMood),
                                stats.totalMoods),
          averageIntensity |-> stats.averageIntensity,
          intensityWord |-> IntensityWord(stats),
          moodStreak |-> stats.moodStreak,
          variety |-> IF NumMoodTypes(stats) > 3 THEN "full range" ELSE "relatively stable"]

\* weeklyStats.totalMoods / 5 in place of the number of mood types / 5
MoodVariabilityOfTotal(stats) == (10 * stats.totalMoods) \div TotalMoodTypes

\* const moodTypes = Object.keys(weeklyStats.moodDistribution).length;
\* const moodVariability = moodTypes / 5, in tenths
MoodVariability(stats) == (10 * NumMoodTypes(stats)) \div TotalMoodTypes

\* the argument of MoodInsight.create in generateAIInsight
NewInsight(userId, stats, t, z) ==
    [userId |-> userId,
     weekStartDate |-> WeekStartDate(t, z),
     weekEndDate |-> WeekEndDate(t, z),
     overallMoodTrend |-> getOverallTrend(stats),
     dominantMood |-> DominantMood(stats),
     moodVariability |-> MoodVariability(stats),
     insights |-> generateMockAIInsights(stats, DominantMood(stats)),
     recommendations |-> generateMockRecommendations(stats, DominantMood(stats)),
     moodFrequency |-> stats.moodDistribution,
     weeklyScore |-> calculateWeeklyScore(stats)]

\* ------------------------------------------------------------------ Init
TZOffsets == {-6, 0, 6}
TickHours == HoursPerDay \div 2
StartNow == 13 * HoursPerDay + 12       \* a Sunday, 12:00 UTC

\* Mood records found in the table (the schema admits any userId, type,
\* intensity and date)
StoredMoods ==
    { [userId |-> "u1", moodType |-> "HAPPY", intensity |-> 8, date |-> 14],
      [userId |-> "u1", moodType |-> "CALM",  intensity |-> 3, date |-> 14],
      [userId |-> "u1", moodType |-> "HAPPY", intensity |-> 3, date |-> 13],
      [userId |-> "u2", moodType |-> "CALM",  intensity |-> 8, date |-> 14] }

SeqsUpTo(S, n) == UNION {[1..k -> S] : k \in 0..n}

NoCall == [fn |-> "none"]

InitSessions ==
    /\ tz \in [Sessions -> TZOffsets]
    /\ currentUserId = [s \in Sessions |-> ""]
    /\ pendingLoads = [s \in Sessions |-> {"user"}]
    /\ isLoading = [s \in Sessions |-> TRUE]
    /\ weeklyStats = [s \in Sessions |-> Null]
    /\ insights = [s \in Sessions |-> <<>>]
    /\ currentWeekInsight = [s \in Sessions |-> Null]
    /\ isGenerating = [s \in Sessions |-> FALSE]
    /\ inflight = [s \in Sessions |-> Null]
    /\ alert = [s \in Sessions |-> "none"]

\* the social components are not mounted
SocialIdle ==
    /\ friendshipStore = {}
    /\ friendsList = Null
    /\ findFriends = Null
    /\ feedStore = <<>>
    /\ moodFeed = Null

Init ==
    /\ SocialIdle
    /\ now = StartNow
    /\ moodStore \in SeqsUpTo(StoredMoods, MaxMoods)
    /\ insightStore = {}
    /\ InitSessions
    /\ fnArg = NoCall
    /\ fnRet = Null

\* --------------------------------------------------------------- actions
storeVars == <<moodStore, insightStore>>
fnVars == <<fnArg, fnRet>>

Settle(s, load) ==
    /\ pendingLoads' = [pendingLoads EXCEPT ![s] = @ \ {load}]
    /\ isLoading' = [isLoading EXCEPT ![s] = (pendingLoads[s] \ {load}) # {}]

\* initialize(): getCurrentUser() resolves; both loaders are started
GetCurrentUser(s) ==
    /\ "user" \in pendingLoads[s]
    /\ currentUserId' = [currentUserId EXCEPT ![s] = SignedIn[s]]
    /\ pendingLoads' = [pendingLoads EXCEPT ![s] = {"insights", "stats"}]
    /\ UNCHANGED <<now, storeVars, tz, isLoading, weeklyStats, insights,
                   currentWeekInsight, isGenerating, inflight, alert, fnVars, socialVars>>

\* initialize(): getCurrentUser() rejects; catch, finally setIsLoading(false)
GetCurrentUserFails(s) ==
    /\ "user" \in pendingLoads[s]
    /\ Settle(s, "user")
    /\ UNCHANGED <<now, storeVars, tz, currentUserId, weeklyStats, insights,
                   currentWeekInsight, isGenerating, inflight, alert, fnVars, socialVars>>

loadInsights(s) ==
    /\ "insights" \in pendingLoads[s]
    /\ LET sortedInsights == SortByWeekDesc(ListInsights(insightStore, currentUserId[s]))
       IN  /\ insights' = [insights EXCEPT ![s] = sortedInsights]
           /\ currentWeekInsight' = [currentWeekInsight EXCEPT ![s] =
                  FindWeek(sortedInsights, WeekStartDate(now, tz[s]))]
    /\ Settle(s, "insights")
    /\ UNCHANGED <<now, storeVars, tz, currentUserId, weeklyStats,
                   isGenerating, inflight, alert, fnVars, socialVars>>

\* MoodInsight.list throws or returns no data: the state is left as it is
loadInsightsFails(s) ==
    /\ "insights" \in pendingLoads[s]
    /\ Settle(s, "insights")
    /\ UNCHANGED <<now, storeVars, tz, currentUserId, weeklyStats, insights,
                   currentWeekInsight, isGenerating, inflight, alert, fnVars, socialVars>>

\* the loader also stores an insight for a week that has entries and none yet
generateWeeklyStatsAutoCreates(s) ==
    /\ "stats" \in pendingLoads[s]
    /\ LET stats == WeeklyStatsOf(ListWeekMoods(moodStore, currentUserId[s], now, tz[s]))
           rec == NewInsight(currentUserId[s], stats, now, tz[s])
       IN  /\ weeklyStats' = [weeklyStats EXCEPT ![s] = stats]
           /\ insightStore' = IF stats.totalMoods > 0 /\ ~KeyExists(insightStore, rec)
                                THEN insightStore \cup {rec}
                                ELSE insightStore
    /\ Settle(s, "stats")
    /\ UNCHANGED <<now, moodStore, tz, currentUserId, insights,
                   currentWeekInsight, isGenerating, inflight, alert, fnVars, socialVars>>

generateWeeklyStats(s) ==
    /\ "stats" \in pendingLoads[s]
    /\ weeklyStats' = [weeklyStats EXCEPT ![s] =
           WeeklyStatsOf(ListWeekMoods(moodStore, currentUserId[s], now, tz[s]))]
    /\ Settle(s, "stats")
    /\ UNCHANGED <<now, storeVars, tz, currentUserId, insights,
                   currentWeekInsight, isGenerating, inflight, alert, fnVars, socialVars>>

generateWeeklyStatsFails(s) ==
    /\ "stats" \in pendingLoads[s]
    /\ Settle(s, "stats")
    /\ UNCHANGED <<now, storeVars, tz, currentUserId, weeklyStats, insights,
                   currentWeekInsight, isGenerating, inflight, alert, fnVars, socialVars>>

\* the "Generate AI Insights" button is rendered and not disabled
ButtonEnabled(s) ==
    /\ ~isLoading[s]
    /\ weeklyStats[s] # Null
    /\ currentWeekInsight[s] = Null
    /\ ~(isGenerating[s] \/ weeklyStats[s].totalMoods = 0)

\* generateAIInsight up to the settlement of MoodInsight.create
generateAIInsight(s) ==
    IF weeklyStats[s] = Null \/ weeklyStats[s].totalMoods = 0
    THEN /\ alert' = [alert EXCEPT ![s] = "not_enough_data"]
         /\ UNCHANGED <<insightStore, isGenerating, inflight>>
    ELSE /\ isGenerating' = [isGenerating EXCEPT ![s] = TRUE]
         /\ alert' = [alert EXCEPT ![s] = "none"]
         /\ LET rec == NewInsight(currentUserId[s], weeklyStats[s], now, tz[s])
            IN  \/ /\ ~KeyExists(insightStore, rec)
                   /\ insightStore' = insightStore \cup {rec}
                   /\ inflight' = [inflight EXCEPT ![s] = [kind |-> "data", data |-> rec]]
                \/ /\ KeyExists(insightStore, rec)
                   /\ inflight' = [inflight EXCEPT ![s] = [kind |-> "errors", data |-> Null]]
                   /\ UNCHANGED insightStore
                \/ /\ inflight' = [inflight EXCEPT ![s] = [kind |-> "thrown", data |-> Null]]
                   /\ UNCHANGED insightStore

\* neither the button nor the handler checks totalMoods: with no entries
\* the reduce over the empty distribution throws and the catch block alerts
ClickGenerateUnguarded(s) ==
    /\ ~isLoading[s]
    /\ weeklyStats[s] # Null
    /\ currentWeekInsight[s] = Null
    /\ ~isGenerating[s]
    /\ IF weeklyStats[s].moodDistribution = <<>>
       THEN /\ alert' = [alert EXCEPT ![s] = "failed"]
            /\ UNCHANGED <<insightStore, isGenerating, inflight>>
       ELSE generateAIInsight(s)
    /\ UNCHANGED <<now, moodStore, tz, currentUserId, pendingLoads, isLoading,
                   weeklyStats, insights, currentWeekInsight, fnVars, socialVars>>

ClickGenerate(s) ==
    /\ ButtonEnabled(s)
    /\ generateAIInsight(s)
    /\ UNCHANGED <<now, moodStore, tz, currentUserId, pendingLoads, isLoading,
                   weeklyStats, insights, currentWeekInsight, fnVars, socialVars>>

\* generateAIInsight after the await: if (newInsight.data) ..., catch, finally
GenerateSettled(s) ==
    /\ inflight[s] # Null
    /\ inflight' = [inflight EXCEPT ![s] = Null]
    /\ isGenerating' = [isGenerating EXCEPT ![s] = FALSE]
    /\ IF inflight[s].kind = "data"
       THEN /\ currentWeekInsight' = [currentWeekInsight EXCEPT ![s] = inflight[s].data]
            /\ insights' = [insights EXCEPT ![s] = <<inflight[s].data>> \o @]
            /\ UNCHANGED alert
       ELSE /\ alert' = [alert EXCEPT ![s] =
                   IF inflight[s].kind = "thrown" THEN "failed" ELSE @]
            /\ UNCHANGED <<currentWeekInsight, insights>>
    /\ UNCHANGED <<now, storeVars, tz, currentUserId, pendingLoads, isLoading,
                   weeklyStats, fnVars, socialVars>>

\* the user leaves the insights view and opens it again: a fresh component
Remount(s) ==
    /\ ~("user" \in pendingLoads[s])
    /\ currentUserId' = [currentUserId EXCEPT ![s] = ""]
    /\ pendingLoads' = [pendingLoads EXCEPT ![s] = {"user"}]
    /\ isLoading' = [isLoading EXCEPT ![s] = TRUE]
    /\ weeklyStats' = [weeklyStats EXCEPT ![s] = Null]
    /\ insights' = [insights EXCEPT ![s] = <<>>]
    /\ currentWeekInsight' = [currentWeekInsight EXCEPT ![s] = Null]
    /\ isGenerating' = [isGenerating EXCEPT ![s] = FALSE]
    /\ inflight' = [inflight EXCEPT ![s] = Null]
    /\ alert' = [alert EXCEPT ![s] = "none"]
    /\ UNCHANGED <<now, storeVars, tz, fnVars, socialVars>>

Tick ==
    /\ now < StartNow + TickHours * MaxTicks
    /\ now' = now + TickHours
    /\ UNCHANGED <<storeVars, tz, currentUserId, pendingLoads, isLoading,
                   weeklyStats, insights, currentWeekInsight, isGenerating,
                   inflight, alert, fnVars, socialVars>>

Next ==
    \/ \E s \in Sessions : GetCurrentUser(s)
    \/ \E s \in Sessions : GetCurrentUserFails(s)
    \/ \E s \in Sessions : loadInsights(s)
    \/ \E s \in Sessions : loadInsightsFails(s)
    \/ \E s \in Sessions : generateWeeklyStats(s)
    \/ \E s \in Sessions : generateWeeklyStatsFails(s)
    \/ \E s \in Sessions : ClickGenerate(s)
    \/ \E s \in Sessions : GenerateSettled(s)
    \/ \E s \in Sessions : Remount(s)
    \/ Tick

Spec == Init /\ [][Next]_vars

\* ------------------------------------------- functions evaluated on their own
\* WeeklyStats values: every averageIntensity of the scale, 0 to 5 mood types,
\* every moodStreak of a week
DistOf(k) == [i \in 1..k |-> <<MoodTypes[i], 1>>]

StatsInputs ==
    { [totalMoods |-> k, averageIntensity |-> a,
       moodDistribution |-> DistOf(k), moodStreak |-> d] :
      k \in 0..TotalMoodTypes, a \in 0..(10 * MaxIntensity), d \in 0..DaysPerWeek }

EmptyStats ==
    [totalMoods |-> 0, averageIntensity |-> 0, moodDistribution |-> <<>>,
     moodStreak |-> 0]

\* entry lists: one attribute varies freely, or a small mix of all three
MoodAt(t, n, d) == [userId |-> "u1", moodType |-> t, intensity |-> n, date |-> d]

IntensityLists(k) == [1..k -> MinIntensity..MaxIntensity]
TypeLists(k) == [1..k -> MoodTypeSet]
DateLists(k) == [1..k -> 14..(13 + DaysPerWeek)]
MixedLists(k) == [1..k -> {"HAPPY", "SAD"} \X {3, 6, 8}]
\* intensity is a.integer(): the table also holds values outside the 1-10 scale
UnscaledLists(k) == [1..k -> {MinIntensity - 1, 5, MaxIntensity + 1}]

EntriesCall(moods) == [fn |-> "entries", moods |-> moods]

\* instants of two weeks, every whole-hour time zone
WeekInputs ==
    { [t |-> t, z |-> z] :
      t \in (DaysPerWeek * HoursPerDay)..(3 * DaysPerWeek * HoursPerDay - 1),
      z \in -12..14 }

\* Mood tables for the weekly query: short tables of entries of both users
\* on the days around the week's two ends, and tables with one entry of the
\* user on each day of a set of days
ListedDates == {12, 13, 14, 19, 20, 21}
ListedMoods == {[userId |-> u, moodType |-> "CALM", intensity |-> 5, date |-> d] :
                  u \in Users, d \in ListedDates}
ListedInstants == {StartNow, StartNow + HoursPerDay}

RECURSIVE OneEntryPerDay(_)
OneEntryPerDay(S) ==
    IF S = {} THEN <<>>
    ELSE LET d == CHOOSE x \in S : \A y \in S : x <= y
         IN  <<MoodAt("CALM", 5, d)>> \o OneEntryPerDay(S \ {d})

ListCall(store, t, z) ==
    [fn |-> "list", store |-> store, user |-> "u1", t |-> t, z |-> z]

\* ----------------------------------------------------------- AddMoodEntry
\* the form: the mood picked in MoodSelector, or none yet
NoMood == "undefined"
FormMoods == MoodTypeSet \cup {NoMood}

\* Object.keys(MOOD_TYPES).find((key) => key === selectedMood)
MoodColorOf(selectedMood) ==
    LET hit == {i \in 1..Len(MoodTypes) : MoodTypes[i] = selectedMood}
    IN  MoodTypes[CHOOSE i \in hit : \A j \in hit : i <= j]

\* handleSubmit of the signed-in user `user` at instant t: the argument of
\* Mood.create, or Null when the submit returns at the "Please select a mood" alert
handleSubmit(user, selectedMood, intensity, isPrivate, t) ==
    IF selectedMood = NoMood THEN Null
    ELSE [userId |-> "",
          moodType |-> selectedMood,
          moodColor |-> MoodColorOf(selectedMood),
          intensity |-> intensity,
          isPrivate |-> isPrivate,
          date |-> ISODate(t)]

SubmitCall(user, selectedMood, intensity, isPrivate) ==
    [fn |-> "submit", user |-> user, selectedMood |-> selectedMood,
     intensity |-> intensity, isPrivate |-> isPrivate, t |-> StartNow]

\* ------------------------------------------------------------ friendshipId
\* a user id is a string, held as the sequence of its characters
IdChars == {"a", "b", "-"}
UserIds == UNION {[1..n -> IdChars] : n \in 1..MaxIdLen}

\* `${friendship.requesterId}-${friendship.addresseeId}`
FriendshipIdOf(requesterId, addresseeId) == requesterId \o <<"-">> \o addresseeId

\* String.prototype.split(sep) for a one-character separator
RECURSIVE StringSplit(_, _)
StringSplit(str, sep) ==
    LET at == {i \in 1..Len(str) : str[i] = sep}
    IN  IF at = {} THEN <<str>>
        ELSE LET i == CHOOSE x \in at : \A y \in at : x <= y
             IN  <<SubSeq(str, 1, i - 1)>> \o StringSplit(SubSeq(str, i + 1, Len(str)), sep)

\* const [requesterId, addresseeId] = friend.friendshipId.split("-"): the key
\* removeFriend gives to Friendship.delete and blockUser to Friendship.update
KeyFromFriendshipId(friendshipId) ==
    LET parts == StringSplit(friendshipId, "-")
    IN  [requesterId |-> parts[1], addresseeId |-> parts[2]]

\* what generateAIInsight passes to MoodInsight.create for `stats`, or Null
\* when it returns early
CreateArgument(stats) ==
    IF stats = Null \/ stats.totalMoods = 0 THEN Null
    ELSE NewInsight("u1", stats, StartNow, 0)

InitFn ==
    /\ SocialIdle
    /\ now = StartNow
    /\ moodStore = <<>>
    /\ insightStore = {}
    /\ InitSessions
    /\ tz = [s \in Sessions |-> 0]
    /\ \/ \E x \in StatsInputs : fnArg = [fn |-> "stats", stats |-> x]
       \/ \E k \in 0..MaxEntries :
            \/ \E f \in IntensityLists(k) :
                 fnArg = EntriesCall([i \in 1..k |-> MoodAt("HAPPY", f[i], 13 + i)])
            \/ \E f \in TypeLists(k) :
                 fnArg = EntriesCall([i \in 1..k |-> MoodAt(f[i], 5, 14)])
            \/ \E f \in DateLists(k) :
                 fnArg = EntriesCall([i \in 1..k |-> MoodAt("CALM", 5, f[i])])
            \/ \E f \in MixedLists(k) :
                 fnArg = EntriesCall([i \in 1..k |-> MoodAt(f[i][1], f[i][2], 13 + i)])
            \/ \E f \in UnscaledLists(k) :
                 fnArg = EntriesCall([i \in 1..k |-> MoodAt("SAD", f[i], 13 + i)])
       \/ \E x \in WeekInputs : fnArg = [fn |-> "week", t |-> x.t, z |-> x.z]
       \/ \E t \in ListedInstants, z \in TZOffsets :
            \/ \E k \in 0..MaxStored : \E f \in [1..k -> ListedMoods] :
                 fnArg = ListCall(f, t, z)
            \/ \E S \in SUBSET (12..21) : fnArg = ListCall(OneEntryPerDay(S), t, z)
       \/ \E r \in UserIds, a \in UserIds :
            fnArg = [fn |-> "friendshipId", requesterId |-> r, addresseeId |-> a]
       \/ \E u \in Users, m \in FormMoods, n \in MinIntensity..MaxIntensity, p \in BOOLEAN :
            fnArg = SubmitCall(u, m, n, p)
    /\ fnRet = Null

appVars == <<now, storeVars, tz, currentUserId, pendingLoads, isLoading,
             weeklyStats, insights, currentWeekInsight, isGenerating, inflight,
             alert>>

EvalStats ==
    /\ fnArg.fn = "stats"
    /\ fnRet = Null
    /\ fnRet' = [weeklyScore |-> calculateWeeklyScore(fnArg.stats),
                 scoreBeforeClamp |-> ScoreBeforeClamp(fnArg.stats),
                 overallMoodTrend |-> getOverallTrend(fnArg.stats),
                 insight |-> CreateArgument(fnArg.stats)]
    /\ UNCHANGED <<appVars, socialVars, fnArg>>

EvalEntries ==
    /\ fnArg.fn = "entries"
    /\ fnRet = Null
    /\ LET stats == WeeklyStatsOf(fnArg.moods)
       IN  fnRet' = [weeklyStats |-> stats, insight |-> CreateArgument(stats)]
    /\ UNCHANGED <<appVars, socialVars, fnArg>>

EvalWeek ==
    /\ fnArg.fn = "week"
    /\ fnRet = Null
    /\ fnRet' = [weekStartDate |-> WeekStartDate(fnArg.t, fnArg.z),
                 weekEndDate |-> WeekEndDate(fnArg.t, fnArg.z)]
    /\ UNCHANGED <<appVars, socialVars, fnArg>>

\* generateWeeklyStats: the weekly query and the statistics of its result
EvalList ==
    /\ fnArg.fn = "list"
    /\ fnRet = Null
    /\ LET moods == ListWeekMoods(fnArg.store, fnArg.user, fnArg.t, fnArg.z)
       IN  fnRet' = [weekStartDate |-> WeekStartDate(fnArg.t, fnArg.z),
                     moods |-> moods,
                     weeklyStats |-> WeeklyStatsOf(moods)]
    /\ UNCHANGED <<appVars, socialVars, fnArg>>

\* AddMoodEntry.handleSubmit up to the call of Mood.create
EvalSubmit ==
    /\ fnArg.fn = "submit"
    /\ fnRet = Null
    /\ LET moodEntry == handleSubmit(fnArg.user, fnArg.selectedMood, fnArg.intensity,
                                     fnArg.isPrivate, fnArg.t)
       IN  fnRet' = [sent |-> moodEntry # Null, moodEntry |-> moodEntry]
    /\ UNCHANGED <<appVars, socialVars, fnArg>>

\* fetchFriends builds the friendshipId; removeFriend / blockUser split it
EvalFriendshipId ==
    /\ fnArg.fn = "friendshipId"
    /\ fnRet = Null
    /\ LET friendshipId == FriendshipIdOf(fnArg.requesterId, fnArg.addresseeId)
       IN  fnRet' = [friendshipId |-> friendshipId,
                     key |-> KeyFromFriendshipId(friendshipId)]
    /\ UNCHANGED <<appVars, socialVars, fnArg>>

NextFn ==
    EvalStats \/ EvalEntries \/ EvalWeek \/ EvalList \/ EvalSubmit \/ EvalFriendshipId

SpecFn == InitFn /\ [][NextFn]_vars

\* ============================================================ FriendsList
\* Two users, each with one mounted FriendsList; a user id is the sequence of
\* its characters.  Every user has a UserProfile, so UserProfile.get in
\* fetchFriends returns data.
FUsers == {<<"a">>, <<"b">>}
OtherUser(u) == CHOOSE v \in FUsers : v # u

\* the component and function state that SpecFriends leaves as it is
InsightsIdle ==
    /\ now = StartNow
    /\ moodStore = <<>>
    /\ insightStore = {}
    /\ InitSessions
    /\ tz = [s \in Sessions |-> 0]
    /\ fnArg = NoCall
    /\ fnRet = Null

\* a call in flight is held with its position and the values it has read;
\* calls of one component that agree in all of these are held once
FetchCall == [op |-> "fetch", pc |-> "asRequester", asRequester |-> <<>>]

\* Friendship records as sendFriendRequest creates them
PendingOf(r, a) == [requesterId |-> r, addresseeId |-> a, status |-> "PENDING"]

\* mount: useState initial values and the effect that calls fetchFriends()
InitFriends ==
    /\ InsightsIdle
    /\ friendshipStore \in SUBSET {PendingOf(u, OtherUser(u)) : u \in FUsers}
    /\ friendsList = [u \in FUsers |->
          [friends |-> <<>>, pendingRequests |-> <<>>, isLoading |-> TRUE,
           calls |-> {FetchCall}]]
    /\ findFriends = Null
    /\ feedStore = <<>>
    /\ moodFeed = Null

friendsRest == <<now, moodStore, insightStore, tz, currentUserId, pendingLoads,
                 isLoading, weeklyStats, insights, currentWeekInsight,
                 isGenerating, inflight, alert, fnArg, fnRet, findFriends,
                 feedStore, moodFeed>>

\* Friendship.list({ filter: { <field>: { eq: currentUserId } } })
RECURSIVE SeqOfSet(_)
SeqOfSet(S) ==
    IF S = {} THEN <<>>
    ELSE LET x == CHOOSE y \in S : TRUE IN <<x>> \o SeqOfSet(S \ {x})

ListAsRequester(store, u) == SeqOfSet({f \in store : f.requesterId = u})
ListAsAddressee(store, u) == SeqOfSet({f \in store : f.addresseeId = u})

\* Friendship.get / update / delete by the identifier [requesterId, addresseeId]
HasFriendship(store, r, a) ==
    \E f \in store : f.requesterId = r /\ f.addresseeId = a

UpdateStatus(store, r, a, status) ==
    {IF f.requesterId = r /\ f.addresseeId = a
     THEN [f EXCEPT !.status = status] ELSE f : f \in store}

DeleteFriendship(store, r, a) ==
    {f \in store : ~(f.requesterId = r /\ f.addresseeId = a)}

\* the Friend that fetchFriends builds from a friendship of currentUserId
FriendOf(friendship, currentUser) ==
    [userId |-> IF friendship.requesterId = currentUser
                THEN friendship.addresseeId ELSE friendship.requesterId,
     friendshipStatus |-> friendship.status,
     friendshipId |-> FriendshipIdOf(friendship.requesterId, friendship.addresseeId)]

FriendsWithStatus(allFriendships, currentUser, status) ==
    LET all == [i \in 1..Len(allFriendships) |-> FriendOf(allFriendships[i], currentUser)]
    IN  SelectSeq(all, LAMBDA f : f.friendshipStatus = status)

RECURSIVE CallsInFlight(_)
CallsInFlight(S) ==
    IF S = {} THEN 0
    ELSE LET u == CHOOSE v \in S : TRUE
         IN  Cardinality(friendsList[u].calls) + CallsInFlight(S \ {u})

\* the lists are rendered (not the loading view) and a further call fits
CanClick(u) == ~friendsList[u].isLoading /\ CallsInFlight(FUsers) < MaxCalls

StartCall(u, call) ==
    /\ friendsList' = [friendsList EXCEPT ![u].calls = @ \cup {call}]
    /\ UNCHANGED <<friendshipStore, friendsRest>>

\* the call c goes on as fetchFriends(): setIsLoading(true), first list
ThenFetch(u, c) ==
    friendsList' = [friendsList EXCEPT ![u].calls = (@ \ {c}) \cup {FetchCall},
                                       ![u].isLoading = TRUE]

\* fetchFriends: the list of the friendships requested by currentUserId returns
fetchAsRequester(u) ==
    \E c \in friendsList[u].calls :
    /\ c.op = "fetch"
    /\ c.pc = "asRequester"
    /\ friendsList' = [friendsList EXCEPT ![u].calls = (@ \ {c}) \cup
          {[op |-> "fetch", pc |-> "asAddressee",
            asRequester |-> ListAsRequester(friendshipStore, u)]}]
    /\ UNCHANGED <<friendshipStore, friendsRest>>

\* fetchFriends: the second list returns; the profiles are fetched, the two
\* lists are set, finally setIsLoading(false)
fetchAsAddressee(u) ==
    \E c \in friendsList[u].calls :
    /\ c.op = "fetch"
    /\ c.pc = "asAddressee"
    /\ LET allFriendships == c.asRequester \o ListAsAddressee(friendshipStore, u)
       IN  friendsList' = [friendsList EXCEPT
              ![u].friends = FriendsWithStatus(allFriendships, u, "ACCEPTED"),
              ![u].pendingRequests = FriendsWithStatus(allFriendships, u, "PENDING"),
              ![u].isLoading = FALSE,
              ![u].calls = @ \ {c}]
    /\ UNCHANGED <<friendshipStore, friendsRest>>

\* fetchFriends: a request throws; catch, finally setIsLoading(false)
fetchFriendsFails(u) ==
    \E c \in friendsList[u].calls :
    /\ c.op = "fetch"
    /\ friendsList' = [friendsList EXCEPT ![u].isLoading = FALSE,
                                          ![u].calls = @ \ {c}]
    /\ UNCHANGED <<friendshipStore, friendsRest>>

\* Accept or Decline on the k-th pending request
ClickHandleFriendRequest(u, k, action) ==
    /\ CanClick(u)
    /\ k \in 1..Len(friendsList[u].pendingRequests)
    /\ StartCall(u, [op |-> "handle", pc |-> "get", action |-> action,
                     friendId |-> friendsList[u].pendingRequests[k].userId])

\* handleFriendRequest: Friendship.get returns; without data the handler ends
handleFriendRequestGet(u) ==
    \E c \in friendsList[u].calls :
    /\ c.op = "handle"
    /\ c.pc = "get"
    /\ friendsList' = [friendsList EXCEPT ![u].calls =
          IF HasFriendship(friendshipStore, c.friendId, u)
          THEN (@ \ {c}) \cup {[c EXCEPT !.pc = "update"]}
          ELSE @ \ {c}]
    /\ UNCHANGED <<friendshipStore, friendsRest>>

\* handleFriendRequest: Friendship.update is applied and returns; fetchFriends()
handleFriendRequestUpdate(u) ==
    \E c \in friendsList[u].calls :
    /\ c.op = "handle"
    /\ c.pc = "update"
    /\ friendshipStore' = UpdateStatus(friendshipStore, c.friendId, u,
            IF c.action = "accept" THEN "ACCEPTED" ELSE "DECLINED")
    /\ ThenFetch(u, c)
    /\ UNCHANGED friendsRest

\* Block User on the k-th friend, confirmed
ClickBlockUser(u, k) ==
    /\ CanClick(u)
    /\ k \in 1..Len(friendsList[u].friends)
    /\ StartCall(u, [op |-> "block",
                     friendshipId |-> friendsList[u].friends[k].friendshipId])

\* blockUser: Friendship.update is applied and returns; fetchFriends()
blockUser(u) ==
    \E c \in friendsList[u].calls :
    /\ c.op = "block"
    /\ LET key == KeyFromFriendshipId(c.friendshipId)
       IN  friendshipStore' = UpdateStatus(friendshipStore, key.requesterId,
                                           key.addresseeId, "BLOCKED")
    /\ ThenFetch(u, c)
    /\ UNCHANGED friendsRest

\* Remove Friend on the k-th friend, confirmed
ClickRemoveFriend(u, k) ==
    /\ CanClick(u)
    /\ k \in 1..Len(friendsList[u].friends)
    /\ StartCall(u, [op |-> "remove",
                     friendshipId |-> friendsList[u].friends[k].friendshipId])

\* removeFriend: Friendship.delete is applied and returns; fetchFriends()
removeFriend(u) ==
    \E c \in friendsList[u].calls :
    /\ c.op = "remove"
    /\ LET key == KeyFromFriendshipId(c.friendshipId)
       IN  friendshipStore' = DeleteFriendship(friendshipStore, key.requesterId,
                                               key.addresseeId)
    /\ ThenFetch(u, c)
    /\ UNCHANGED friendsRest

\* a request of handleFriendRequest, blockUser or removeFriend throws: the
\* catch block logs and the lists are not refreshed
handlerFails(u) ==
    \E c \in friendsList[u].calls :
    /\ c.op \in {"handle", "block", "remove"}
    /\ friendsList' = [friendsList EXCEPT ![u].calls = @ \ {c}]
    /\ UNCHANGED <<friendshipStore, friendsRest>>

NextFriends ==
    \/ \E u \in FUsers : fetchAsRequester(u)
    \/ \E u \in FUsers : fetchAsAddressee(u)
    \/ \E u \in FUsers : fetchFriendsFails(u)
    \/ \E u \in FUsers, k \in 1..2, action \in {"accept", "decline"} :
          ClickHandleFriendRequest(u, k, action)
    \/ \E u \in FUsers : handleFriendRequestGet(u)
    \/ \E u \in FUsers : handleFriendRequestUpdate(u)
    \/ \E u \in FUsers, k \in 1..2 : ClickBlockUser(u, k)
    \/ \E u \in FUsers : blockUser(u)
    \/ \E u \in FUsers, k \in 1..2 : ClickRemoveFriend(u, k)
    \/ \E u \in FUsers : removeFriend(u)
    \/ \E u \in FUsers : handlerFails(u)

SpecFriends == InitFriends /\ [][NextFriends]_vars

\* ============================================================ FindFriends
\* The FindFriends component of user "a".  A string is the sequence of its
\* characters.  displayName is not set in the profiles.
Me == <<"a">>
Profiles ==
    {[userId |-> <<"a">>, username |-> <<"a", "b">>],
     [userId |-> <<"b">>, username |-> <<"b", "o">>]}
Queries == {<<>>, <<"b">>, <<"b", "o">>, <<"a", "b">>, <<" ", "b">>}
FriendshipStatuses == {"PENDING", "ACCEPTED", "DECLINED", "BLOCKED"}

\* String.prototype.trim
RECURSIVE Trim(_)
Trim(str) ==
    IF str = <<>> THEN str
    ELSE IF Head(str) = " " THEN Trim(Tail(str))
    ELSE IF str[Len(str)] = " " THEN Trim(SubSeq(str, 1, Len(str) - 1))
    ELSE str

\* the filter { username: { contains: searchQuery } }
Contains(str, sub) ==
    \E i \in 0..(Len(str) - Len(sub)) : SubSeq(str, i + 1, i + Len(sub)) = sub

\* new Map(), Map.get, and new Map(m).set(k, v)
EmptyMap == <<>>
MapGet(m, k) == IF k \in DOMAIN m THEN m[k] ELSE "undefined"
MapSet(m, k, v) == [x \in DOMAIN m \cup {k} |-> IF x = k THEN v ELSE m[x]]

\* the status loadFriendships maps a friendship to, by the side currentUserId is on
StatusAsRequester(status) ==
    IF status = "ACCEPTED" THEN "FRIENDS"
    ELSE IF status = "PENDING" THEN "PENDING_SENT"
    ELSE IF status = "BLOCKED" THEN "BLOCKED"
    ELSE "NONE"

StatusAsAddressee(status) ==
    IF status = "ACCEPTED" THEN "FRIENDS"
    ELSE IF status = "PENDING" THEN "PENDING_RECEIVED"
    ELSE IF status = "BLOCKED" THEN "BLOCKED"
    ELSE "NONE"

\* loadFriendships as the mount effect's render sees it: `currentUserId` is the
\* value of that render; the forEach over asRequester runs before the one
\* over asAddressee
loadFriendships(userId, store, friendships) ==
    IF userId = <<>> THEN friendships
    ELSE LET others == {f.addresseeId : f \in {g \in store : g.requesterId = userId}}
                         \cup {f.requesterId : f \in {g \in store : g.addresseeId = userId}}
         IN  [o \in others |->
                IF \E f \in store : f.addresseeId = userId /\ f.requesterId = o
                THEN StatusAsAddressee(
                       (CHOOSE f \in store : f.addresseeId = userId /\ f.requesterId = o).status)
                ELSE StatusAsRequester(
                       (CHOOSE f \in store : f.requesterId = userId /\ f.addresseeId = o).status)]

\* the debounce effect of a render with this query, user and friendships map:
\* the timeout it leaves pending (its callback is that render's searchUsers)
\* or Null, and the results it leaves
TimerAfterEffect(query, userId, friendships) ==
    IF Len(Trim(query)) >= 2
    THEN [searchQuery |-> query, currentUserId |-> userId, friendships |-> friendships]
    ELSE Null

ResultsAfterEffect(query, results) ==
    IF Len(Trim(query)) >= 2 THEN results ELSE <<>>

\* mount: useState initial values; the mount effect calls getCurrentUserInfo()
\* and loadFriendships(); the debounce effect runs for the empty query
InitSearch ==
    /\ InsightsIdle
    /\ \E status \in FriendshipStatuses, requester \in {<<"a">>, <<"b">>} :
         friendshipStore \in
            {{}, {[requesterId |-> requester,
                   addresseeId |-> CHOOSE u \in {<<"a">>, <<"b">>} : u # requester,
                   status |-> status]}}
    /\ findFriends =
          [searchQuery |-> <<>>,
           searchResults |-> ResultsAfterEffect(<<>>, <<>>),
           isSearching |-> FALSE,
           currentUserId |-> <<>>,
           friendships |-> loadFriendships(<<>>, friendshipStore, EmptyMap),
           timer |-> TimerAfterEffect(<<>>, <<>>, EmptyMap),
           userPending |-> TRUE,
           requests |-> {},
           alert |-> "none"]
    /\ friendsList = Null
    /\ feedStore = <<>>
    /\ moodFeed = Null

searchRest == <<now, moodStore, insightStore, tz, currentUserId, pendingLoads,
                isLoading, weeklyStats, insights, currentWeekInsight,
                isGenerating, inflight, alert, fnArg, fnRet, friendsList,
                feedStore, moodFeed>>

\* getCurrentUserInfo: getCurrentUser() resolves; the debounce effect runs
\* again because currentUserId changed
getCurrentUserInfo ==
    /\ findFriends.userPending
    /\ findFriends' = [findFriends EXCEPT
          !.userPending = FALSE,
          !.currentUserId = Me,
          !.timer = TimerAfterEffect(findFriends.searchQuery, Me, findFriends.friendships),
          !.searchResults = ResultsAfterEffect(findFriends.searchQuery, @)]
    /\ UNCHANGED <<friendshipStore, searchRest>>

getCurrentUserInfoFails ==
    /\ findFriends.userPending
    /\ findFriends' = [findFriends EXCEPT !.userPending = FALSE]
    /\ UNCHANGED <<friendshipStore, searchRest>>

\* onChange of the search input, and the debounce effect of the new render
TypeQuery(q) ==
    /\ q # findFriends.searchQuery
    /\ findFriends' = [findFriends EXCEPT
          !.searchQuery = q,
          !.timer = TimerAfterEffect(q, findFriends.currentUserId, findFriends.friendships),
          !.searchResults = ResultsAfterEffect(q, @)]
    /\ UNCHANGED <<friendshipStore, searchRest>>

\* the timeout fires: searchUsers of the render that set it, up to its await
TimerFires ==
    /\ findFriends.timer # Null
    /\ Cardinality(findFriends.requests) < MaxRequests
    /\ LET t == findFriends.timer
       IN  IF Trim(t.searchQuery) = <<>> \/ t.currentUserId = <<>>
           THEN findFriends' = [findFriends EXCEPT !.timer = Null]
           ELSE findFriends' = [findFriends EXCEPT
                   !.timer = Null,
                   !.isSearching = TRUE,
                   !.requests = @ \cup {[op |-> "search", searchQuery |-> t.searchQuery,
                                         currentUserId |-> t.currentUserId,
                                         friendships |-> t.friendships]}]
    /\ UNCHANGED <<friendshipStore, searchRest>>

\* searchUsers: UserProfile.list returns; the results get their status from
\* the friendships map of the render that started the search
searchUsers ==
    \E c \in findFriends.requests :
    /\ c.op = "search"
    /\ LET data == SeqOfSet({u \in Profiles : Contains(u.username, c.searchQuery)})
           others == SelectSeq(data, LAMBDA u : u.userId # c.currentUserId)
           usersWithStatus ==
               [i \in 1..Len(others) |->
                  [userId |-> others[i].userId,
                   friendshipStatus |->
                      IF MapGet(c.friendships, others[i].userId) = "undefined"
                      THEN "NONE" ELSE MapGet(c.friendships, others[i].userId)]]
       IN  findFriends' = [findFriends EXCEPT
              !.searchResults = usersWithStatus,
              !.isSearching = FALSE,
              !.requests = @ \ {c}]
    /\ UNCHANGED <<friendshipStore, searchRest>>

\* searchUsers: the list throws; catch setSearchResults([]), finally
searchUsersFails ==
    \E c \in findFriends.requests :
    /\ c.op = "search"
    /\ findFriends' = [findFriends EXCEPT
          !.searchResults = <<>>, !.isSearching = FALSE, !.requests = @ \ {c}]
    /\ UNCHANGED <<friendshipStore, searchRest>>

WithStatus(results, targetUserId, status) ==
    [i \in 1..Len(results) |->
       IF results[i].userId = targetUserId
       THEN [results[i] EXCEPT !.friendshipStatus = status] ELSE results[i]]

\* "Add Friend" on the k-th result (the default case of getActionButton)
ClickAddFriend(k) ==
    /\ k \in 1..Len(findFriends.searchResults)
    /\ findFriends.searchResults[k].friendshipStatus = "NONE"
    /\ Cardinality(findFriends.requests) < MaxRequests
    /\ findFriends' = [findFriends EXCEPT !.requests = @ \cup
          {[op |-> "send", targetUserId |-> findFriends.searchResults[k].userId,
            currentUserId |-> findFriends.currentUserId,
            friendships |-> findFriends.friendships]}]
    /\ UNCHANGED <<friendshipStore, searchRest>>

\* sendFriendRequest: Friendship.create returns (a create for a key that is
\* present returns errors and stores nothing); the local state is updated
sendFriendRequest ==
    \E c \in findFriends.requests :
    /\ c.op = "send"
    /\ friendshipStore' =
          IF HasFriendship(friendshipStore, c.currentUserId, c.targetUserId)
          THEN friendshipStore
          ELSE friendshipStore \cup {PendingOf(c.currentUserId, c.targetUserId)}
    /\ findFriends' = [findFriends EXCEPT
          !.friendships = MapSet(c.friendships, c.targetUserId, "PENDING_SENT"),
          !.searchResults = WithStatus(@, c.targetUserId, "PENDING_SENT"),
          !.requests = @ \ {c}]
    /\ UNCHANGED searchRest

\* "Cancel Request" on the k-th result
ClickCancelRequest(k) ==
    /\ k \in 1..Len(findFriends.searchResults)
    /\ findFriends.searchResults[k].friendshipStatus = "PENDING_SENT"
    /\ Cardinality(findFriends.requests) < MaxRequests
    /\ findFriends' = [findFriends EXCEPT !.requests = @ \cup
          {[op |-> "cancel", targetUserId |-> findFriends.searchResults[k].userId,
            currentUserId |-> findFriends.currentUserId,
            friendships |-> findFriends.friendships]}]
    /\ UNCHANGED <<friendshipStore, searchRest>>

\* cancelFriendRequest: Friendship.delete returns; the local state is updated
cancelFriendRequest ==
    \E c \in findFriends.requests :
    /\ c.op = "cancel"
    /\ friendshipStore' = DeleteFriendship(friendshipStore, c.currentUserId, c.targetUserId)
    /\ findFriends' = [findFriends EXCEPT
          !.friendships = MapSet(c.friendships, c.targetUserId, "NONE"),
          !.searchResults = WithStatus(@, c.targetUserId, "NONE"),
          !.requests = @ \ {c}]
    /\ UNCHANGED searchRest

\* sendFriendRequest / cancelFriendRequest: the request throws; catch, alert
friendRequestFails ==
    \E c \in findFriends.requests :
    /\ c.op \in {"send", "cancel"}
    /\ findFriends' = [findFriends EXCEPT !.requests = @ \ {c}, !.alert = "failed"]
    /\ UNCHANGED <<friendshipStore, searchRest>>

NextSearch ==
    \/ getCurrentUserInfo
    \/ getCurrentUserInfoFails
    \/ \E q \in Queries : TypeQuery(q)
    \/ TimerFires
    \/ searchUsers
    \/ searchUsersFails
    \/ \E k \in 1..Cardinality(Profiles) : ClickAddFriend(k)
    \/ sendFriendRequest
    \/ \E k \in 1..Cardinality(Profiles) : ClickCancelRequest(k)
    \/ cancelFriendRequest
    \/ friendRequestFails

SpecSearch == InitSearch /\ [][NextSearch]_vars

\* =============================================================== MoodFeed
\* The MoodFeed component of user "a", mounted by the layout with its
\* feedType state as the prop.  createdAt of a mood is its position in the table.
FeedTypes == {"friends", "public", "my_moods"}
FeedLimit == 1      \* the `limit` prop
FeedUsers == {<<"a">>, <<"b">>}
NoToken == 0        \* nextToken null; a token is the position the next page starts at

\* the Mood authorization rules: owners read their moods, every signed-in
\* user reads the moods that are not private
Readable(mood, viewer) == mood.userId = viewer \/ ~mood.isPrivate

\* the filter loadMoods gives to Mood.list for its feedType
MoodFilter(closure, mood) ==
    IF closure.feedType = "my_moods"
    THEN mood.userId = closure.currentUserId
    ELSE ~mood.isPrivate

\* Mood.list({ filter, limit, nextToken }): `limit` records of the table are
\* examined from the token on, and the ones that match are returned
MoodList(store, viewer, closure, limit, nextToken) ==
    LET from == IF nextToken = NoToken THEN 1 ELSE nextToken
        upTo == Min(Len(store), from + limit - 1)
        page == SubSeq(store, from, upTo)
    IN  [data |-> SelectSeq(page, LAMBDA m : Readable(m, viewer) /\ MoodFilter(closure, m)),
         nextToken |-> IF upTo < Len(store) THEN upTo + 1 ELSE NoToken]

\* sort((a, b) => new Date(b.createdAt) - new Date(a.createdAt))
RECURSIVE SortByCreatedDesc(_)
SortByCreatedDesc(list) ==
    IF list = <<>> THEN <<>>
    ELSE LET i == CHOOSE i \in 1..Len(list) :
                     /\ \A j \in 1..Len(list) : list[j].createdAt <= list[i].createdAt
                     /\ \A j \in 1..(i - 1) : list[j].createdAt < list[i].createdAt
         IN  <<list[i]>> \o SortByCreatedDesc(SubSeq(list, 1, i - 1) \o SubSeq(list, i + 1, Len(list)))

Includes(list, x) == \E i \in 1..Len(list) : list[i] = x

Slice(list, n) == SubSeq(list, 1, Min(n, Len(list)))

\* loadFriends: the two Friendship.list calls with status ACCEPTED
AcceptedFriendIds(store, userId) ==
    SeqOfSet({f.addresseeId : f \in {g \in store : g.requesterId = userId /\ g.status = "ACCEPTED"}})
    \o SeqOfSet({f.requesterId : f \in {g \in store : g.addresseeId = userId /\ g.status = "ACCEPTED"}})

\* the values a render's loadMoods and subscription callback close over
FeedClosure(feed) ==
    [feedType |-> feed.feedType, currentUserId |-> feed.currentUserId,
     friendIds |-> feed.friendIds, nextToken |-> feed.nextToken]

\* loadMoods(refresh) of the render `feed`, up to `await query`
loadMoodsStart(feed, refresh) ==
    IF feed.feedType = "friends" /\ feed.friendIds = <<>>
    THEN [feed EXCEPT !.moods = <<>>, !.isLoading = FALSE]
    ELSE [feed EXCEPT
            !.isLoading = ~refresh,
            !.loads = @ \cup {[refresh |-> refresh, closure |-> FeedClosure(feed)]}]

\* the effect on [currentUserId, friendIds, feedType] of the render `feed`:
\* loadMoods() and setupRealTimeSubscription(), whose cleanup is dropped
FeedEffect(feed) ==
    IF feed.currentUserId # <<>> /\ (feed.feedType # "friends" \/ feed.friendIds # <<>>)
    THEN [loadMoodsStart(feed, FALSE) EXCEPT
            !.subscriptions = @ \cup {[closure |-> FeedClosure(feed)]}]
    ELSE feed

CanLoad(feed) == Cardinality(feed.loads) < MaxLoads /\ Len(feed.moods) < MaxShown

\* mount: useState initial values; the mount effect calls initialize(); the
\* other effect finds currentUserId empty
InitFeed ==
    /\ InsightsIdle
    /\ friendshipStore \in
          {{}, {[requesterId |-> <<"b">>, addresseeId |-> <<"a">>, status |-> "ACCEPTED"]}}
    /\ friendsList = Null
    /\ findFriends = Null
    /\ feedStore = <<>>
    /\ \E t \in FeedTypes :
         moodFeed = FeedEffect(
            [feedType |-> t, moods |-> <<>>, isLoading |-> TRUE,
             currentUserId |-> <<>>, friendIds |-> <<>>, hasMore |-> TRUE,
             nextToken |-> NoToken, initialize |-> [pc |-> "getCurrentUser", feedType |-> t],
             loads |-> {}, subscriptions |-> {}])

feedRest == <<now, moodStore, insightStore, tz, currentUserId, pendingLoads,
              isLoading, weeklyStats, insights, currentWeekInsight,
              isGenerating, inflight, alert, fnArg, fnRet, friendshipStore,
              friendsList, findFriends>>

\* a user posts a mood (AddMoodEntry's Mood.create)
PostMood(u, isPrivate) ==
    /\ Len(feedStore) < MaxPosted
    /\ feedStore' = Append(feedStore,
          [id |-> Len(feedStore) + 1, userId |-> u, isPrivate |-> isPrivate,
           createdAt |-> Len(feedStore) + 1])
    /\ UNCHANGED <<moodFeed, feedRest>>

\* initialize: getCurrentUser() resolves
initializeUser ==
    /\ moodFeed.initialize.pc = "getCurrentUser"
    /\ CanLoad(moodFeed)
    /\ moodFeed' = FeedEffect([moodFeed EXCEPT
          !.currentUserId = Me,
          !.initialize.pc = IF moodFeed.initialize.feedType = "friends"
                            THEN "loadFriends" ELSE "done"])
    /\ UNCHANGED <<feedStore, feedRest>>

\* loadFriends: the lists return; setFriendIds gives a new array
loadFriends ==
    /\ moodFeed.initialize.pc = "loadFriends"
    /\ CanLoad(moodFeed)
    /\ moodFeed' = FeedEffect([moodFeed EXCEPT
          !.friendIds = AcceptedFriendIds(friendshipStore, Me),
          !.initialize.pc = "done"])
    /\ UNCHANGED <<feedStore, feedRest>>

\* initialize / loadFriends: the request throws
initializeFails ==
    /\ moodFeed.initialize.pc \in {"getCurrentUser", "loadFriends"}
    /\ CanLoad(moodFeed)
    /\ moodFeed' =
          IF moodFeed.initialize.pc = "getCurrentUser"
          THEN [moodFeed EXCEPT !.initialize.pc = "done"]
          ELSE FeedEffect([moodFeed EXCEPT !.friendIds = <<>>, !.initialize.pc = "done"])
    /\ UNCHANGED <<feedStore, feedRest>>

\* the layout's feed buttons: setFeedType, the prop changes
setFeedType(t) ==
    /\ t # moodFeed.feedType
    /\ CanLoad(moodFeed)
    /\ moodFeed' = FeedEffect([moodFeed EXCEPT !.feedType = t])
    /\ UNCHANGED <<feedStore, feedRest>>

\* loadMoods after `await query`
loadMoods ==
    \E c \in moodFeed.loads :
    /\ LET cl == c.closure
           limit == IF cl.feedType = "friends" THEN FeedLimit * 2 ELSE FeedLimit
           token == IF c.refresh THEN NoToken ELSE cl.nextToken
           result == MoodList(feedStore, Me, cl, limit, token)
           filteredMoods ==
              IF cl.feedType = "friends" /\ cl.friendIds # <<>>
              THEN SelectSeq(result.data, LAMBDA m : Includes(cl.friendIds, m.userId))
              ELSE result.data
           sortedMoods == SortByCreatedDesc(filteredMoods)
       IN  moodFeed' = [moodFeed EXCEPT
              !.moods = IF c.refresh THEN sortedMoods ELSE @ \o sortedMoods,
              !.nextToken = result.nextToken,
              !.hasMore = result.nextToken # NoToken,
              !.isLoading = FALSE,
              !.loads = @ \ {c}]
    /\ UNCHANGED <<feedStore, feedRest>>

\* loadMoods: the query throws; catch, finally
loadMoodsFails ==
    \E c \in moodFeed.loads :
    /\ moodFeed' = [moodFeed EXCEPT !.isLoading = FALSE, !.loads = @ \ {c}]
    /\ UNCHANGED <<feedStore, feedRest>>

\* the "Load More" button
loadMore ==
    /\ moodFeed.moods # <<>>
    /\ moodFeed.hasMore /\ ~moodFeed.isLoading
    /\ CanLoad(moodFeed)
    /\ moodFeed' = loadMoodsStart(moodFeed, FALSE)
    /\ UNCHANGED <<feedStore, feedRest>>

\* the "Refresh" button
refresh ==
    /\ ~moodFeed.isLoading
    /\ Cardinality(moodFeed.loads) < MaxLoads
    /\ moodFeed' = [loadMoodsStart(moodFeed, TRUE) EXCEPT !.nextToken = NoToken]
    /\ UNCHANGED <<feedStore, feedRest>>

\* observeQuery's `next` of a subscription that was set up, with isSynced
subscriptionNext ==
    \E sub \in moodFeed.subscriptions :
    /\ LET cl == sub.closure
           items == SelectSeq(feedStore, LAMBDA m : Readable(m, Me))
           filteredItems ==
              IF cl.feedType = "my_moods"
              THEN SelectSeq(items, LAMBDA m : m.userId = cl.currentUserId)
              ELSE IF cl.feedType = "public"
              THEN SelectSeq(items, LAMBDA m : ~m.isPrivate)
              ELSE SelectSeq(items, LAMBDA m : Includes(cl.friendIds, m.userId) /\ ~m.isPrivate)
       IN  moodFeed' = [moodFeed EXCEPT
              !.moods = Slice(SortByCreatedDesc(filteredItems), FeedLimit)]
    /\ UNCHANGED <<feedStore, feedRest>>

NextFeed ==
    \/ \E u \in FeedUsers, isPrivate \in BOOLEAN : PostMood(u, isPrivate)
    \/ initializeUser
    \/ loadFriends
    \/ initializeFails
    \/ \E t \in FeedTypes : setFeedType(t)
    \/ loadMoods
    \/ loadMoodsFails
    \/ loadMore
    \/ refresh
    \/ subscriptionNext

SpecFeed == InitFeed /\ [][NextFeed]_vars

\* ================================================================ properties
SameKey(a, b) == a.userId = b.userId /\ a.weekStartDate = b.weekStartDate

Created(s) == inflight[s] # Null /\ inflight[s].kind = "data"
Rejected(s) == inflight[s] # Null /\ inflight[s].kind = "errors"

\* the key generateAIInsight of session s would write at this moment
KeyNow(s) == [userId |-> currentUserId[s], weekStartDate |-> WeekStartDate(now, tz[s])]

\* C1: no two MoodInsight records share (userId, weekStartDate); of two
\* concurrent creates for one key at most one returns data, and a create that
\* returned data has its record in the table.
C1_OneInsightPerUserWeek ==
    /\ \A a, b \in insightStore : SameKey(a, b) => a = b
    /\ \A s, o \in Sessions :
         (s # o /\ Created(s) /\ Created(o))
            => ~SameKey(inflight[s].data, inflight[o].data)
    /\ \A s \in Sessions : Created(s) => inflight[s].data \in insightStore

\* two sessions of one user have a create for the same week outstanding at
\* once: one was stored, the other was rejected
C1_ConcurrentCreatesWitness ==
    \E s, o \in Sessions :
        /\ s # o
        /\ Created(s)
        /\ Rejected(o)
        /\ KeyNow(o) = [userId |-> inflight[s].data.userId,
                        weekStartDate |-> inflight[s].data.weekStartDate]
        /\ Cardinality({r \in insightStore : SameKey(r, inflight[s].data)}) = 1

FnDone(kind) == fnArg.fn = kind /\ fnRet # Null

\* C2: calculateWeeklyScore is in 1..10 for every WeeklyStats, the empty week
\* included, and so is the weeklyScore of the record handed to MoodInsight.create.
C2_WeeklyScoreInRange ==
    FnDone("stats") =>
        /\ fnRet.weeklyScore \in 1..10
        /\ fnRet.insight # Null => fnRet.insight.weeklyScore \in 1..10

C2_EmptyWeekScoredWitness ==
    /\ FnDone("stats")
    /\ fnArg.stats = EmptyStats
    /\ fnRet.weeklyScore = 1

\* C3: calculateWeeklyScore = clamp[1,10](5 + I + D + C) with the intensity,
\* diversity and consistency adjustments of the specification.
SpecI(a) ==
    CASE a >= 70 -> 2
      [] a >= 50 /\ a < 70 -> 1
      [] a <= 30 -> -2
      [] OTHER -> 0

SpecD(n) ==
    CASE n >= 4 -> 1
      [] n <= 2 -> -1
      [] n = 3 -> 0

SpecC(d) ==
    CASE d >= 6 -> 1
      [] d <= 2 -> -1
      [] OTHER -> 0

SpecClamp(x) == IF x < 1 THEN 1 ELSE IF x > 10 THEN 10 ELSE x

C3_WeeklyScoreFormula ==
    FnDone("stats") =>
        fnRet.weeklyScore =
            SpecClamp(5 + SpecI(fnArg.stats.averageIntensity)
                        + SpecD(Len(fnArg.stats.moodDistribution))
                        + SpecC(fnArg.stats.moodStreak))

\* Scenario 3: average 7.5, four mood types, seven days
C3_ScenarioThreeWitness ==
    /\ FnDone("stats")
    /\ fnArg.stats.averageIntensity = 75
    /\ Len(fnArg.stats.moodDistribution) = 4
    /\ fnArg.stats.moodStreak = 7
    /\ fnRet.weeklyScore = 9

NoData(s) == weeklyStats[s] = Null \/ weeklyStats[s].totalMoods = 0

\* C4: a session whose weeklyStats is null or has totalMoods = 0 never has a
\* MoodInsight.create outstanding, is never generating, and never shows the
\* failure alert of the generation block (dominant-mood selection is not run).
C4_NoCreateWithoutData ==
    \A s \in Sessions :
        NoData(s) => /\ inflight[s] = Null
                     /\ ~isGenerating[s]
                     /\ alert[s] # "failed"

\* a loaded session that found no entries for its week, while another
\* session of the same user has generated an insight
C4_EmptyWeekWitness ==
    \E s, o \in Sessions :
        /\ s # o
        /\ ~isLoading[s]
        /\ weeklyStats[s] # Null
        /\ weeklyStats[s].totalMoods = 0
        /\ currentUserId[o] = currentUserId[s]
        /\ Created(o)

TypeCount(moods, t) == Cardinality({i \in 1..Len(moods) : moods[i].moodType = t})

MaxTypes(moods) ==
    {t \in MoodTypeSet :
        /\ TypeCount(moods, t) > 0
        /\ \A u \in MoodTypeSet : TypeCount(moods, t) >= TypeCount(moods, u)}

FirstInFixedOrder(S) ==
    MoodTypes[CHOOSE i \in 1..Len(MoodTypes) :
                /\ MoodTypes[i] \in S
                /\ \A j \in 1..Len(MoodTypes) : MoodTypes[j] \in S => i <= j]

\* C5: among the mood types tied for the maximum count the dominant mood is
\* the first in the order HAPPY, SAD, ENERGETIC, CALM, ANXIOUS.
C5_TieBrokenByFixedOrder ==
    (FnDone("entries") /\ fnRet.insight # Null) =>
        fnRet.insight.dominantMood = FirstInFixedOrder(MaxTypes(fnArg.moods))

\* C6: the dominantMood of the record handed to MoodInsight.create occurs in
\* the week and no mood type occurs more often.
C6_DominantMoodHasMaxCount ==
    (FnDone("entries") /\ fnRet.insight # Null) =>
        fnRet.insight.dominantMood \in MaxTypes(fnArg.moods)

\* the maximum is neither the first nor the last key of the distribution
C6_MaxInTheMiddleWitness ==
    /\ FnDone("entries")
    /\ Len(fnArg.moods) = 4
    /\ [i \in 1..4 |-> fnArg.moods[i].moodType] = <<"SAD", "HAPPY", "HAPPY", "CALM">>
    /\ fnRet.insight.dominantMood = "HAPPY"

\* Monday of the ISO week (Monday..Sunday) that contains day d
IsoMonday(d) == d - (d % DaysPerWeek)

\* C7: weekStartDate is the Monday of the ISO week that contains the current
\* (local) date, on every day of the week.
C7_WeekStartIsIsoMonday ==
    FnDone("week") =>
        fnRet.weekStartDate = IsoMonday(LocalDay(fnArg.t, fnArg.z))

\* session s settles a create that the table rejected as a duplicate
DuplicateSettles(s) ==
    /\ Rejected(s)
    /\ isGenerating[s]
    /\ ~isGenerating'[s]
    /\ pendingLoads'[s] = pendingLoads[s]

\* C8: a create rejected as a duplicate is reported as "already exists",
\* adds nothing to local state and is not retried.
C8_DuplicateReportedAsAlreadyExists ==
    [][\A s \in Sessions :
         DuplicateSettles(s) =>
            /\ alert'[s] = "already_exists"
            /\ insights'[s] = insights[s]
            /\ currentWeekInsight'[s] = currentWeekInsight[s]
            /\ inflight'[s] = Null
            /\ insightStore' = insightStore]_vars

SpecTrend(a) ==
    CASE a >= 70 -> "positive"
      [] a <= 40 -> "challenging"
      [] OTHER -> "stable"

\* C9: getOverallTrend is positive from 7, challenging up to 4, stable in
\* between, and the trend of the record handed to MoodInsight.create is one of
\* these three.
C9_OverallTrend ==
    FnDone("stats") =>
        /\ fnRet.overallMoodTrend = SpecTrend(fnArg.stats.averageIntensity)
        /\ fnRet.insight # Null =>
              /\ fnRet.insight.overallMoodTrend \in {"positive", "stable", "challenging"}
              /\ fnRet.insight.overallMoodTrend = SpecTrend(fnArg.stats.averageIntensity)

\* the boundary 4.0 in a record that is persisted
C9_ChallengingAtFourWitness ==
    /\ FnDone("stats")
    /\ fnArg.stats.averageIntensity = 40
    /\ fnRet.insight # Null
    /\ fnRet.insight.overallMoodTrend = "challenging"

RECURSIVE IntensitySum(_, _)
IntensitySum(moods, k) ==
    IF k = 0 THEN 0 ELSE moods[k].intensity + IntensitySum(moods, k - 1)

\* r tenths is sum/n rounded to one decimal place, a half rounding up
IsRoundedAverage(r, sum, n) ==
    /\ 2 * n * r - n <= 20 * sum
    /\ 20 * sum < 2 * n * r + n

\* C10: averageIntensity is sum(intensity)/totalEntries rounded to one decimal
\* place (half up), and 0 for the empty list.
C10_AverageIntensityRounded ==
    FnDone("entries") =>
        LET n == Len(fnArg.moods)
            r == fnRet.weeklyStats.averageIntensity
        IN  IF n = 0 THEN r = 0
            ELSE IsRoundedAverage(r, IntensitySum(fnArg.moods, n), n)

\* Scenario 1: intensities 8, 6, 3 give 5.7
C10_ScenarioOneWitness ==
    /\ FnDone("entries")
    /\ fnArg.moods = <<MoodAt("HAPPY", 8, 14), MoodAt("HAPPY", 6, 15),
                       MoodAt("SAD", 3, 16)>>
    /\ fnRet.weeklyStats.averageIntensity = 57
    /\ fnRet.weeklyStats.totalMoods = 3
    /\ fnRet.weeklyStats.moodStreak = 3
    /\ fnRet.weeklyStats.moodDistribution = <<<<"HAPPY", 2>>, <<"SAD", 1>>>>


AllInRange(moods) ==
    \A i \in 1..Len(moods) : moods[i].intensity \in MinIntensity..MaxIntensity

\* C11: with intensities in 1..10 averageIntensity lies in [0, 10] and is 0
\* exactly when the week has no entries.
C11_AverageIntensityBounds ==
    (FnDone("entries") /\ AllInRange(fnArg.moods)) =>
        LET r == fnRet.weeklyStats.averageIntensity
        IN  /\ r >= 0
            /\ r <= 10 * MaxIntensity
            /\ (r = 0) <=> (fnRet.weeklyStats.totalMoods = 0)

\* a single entry of the lowest intensity: the smallest non-empty average
C11_SingleLowestEntryWitness ==
    /\ FnDone("entries")
    /\ Len(fnArg.moods) = 1
    /\ fnArg.moods[1].intensity = MinIntensity
    /\ fnRet.weeklyStats.totalMoods = 1
    /\ fnRet.weeklyStats.averageIntensity = 10


\* entries of the queried user dated within the seven days from weekStart
InWindow(m, user, weekStart) ==
    /\ m.userId = user
    /\ m.date >= weekStart
    /\ m.date <= weekStart + 6

DaysWithEntry(moods, days) ==
    {d \in days : \E i \in 1..Len(moods) : moods[i].date = d}

C13_DistributionCountsTypes ==
    FnDone("entries") =>
        LET d == fnRet.weeklyStats.moodDistribution
            keysOf(t) == {i \in 1..Len(d) : d[i][1] = t}
        IN  /\ \A t \in MoodTypeSet :
                 IF TypeCount(fnArg.moods, t) > 0
                 THEN /\ Cardinality(keysOf(t)) = 1
                      /\ \A i \in keysOf(t) : d[i][2] = TypeCount(fnArg.moods, t)
                 ELSE keysOf(t) = {}
            /\ fnArg.moods = <<>> => d = <<>>

\* a type seen again after another type has been seen
C13_RepeatedTypeWitness ==
    /\ FnDone("entries")
    /\ [i \in 1..Len(fnArg.moods) |-> fnArg.moods[i].moodType] = <<"SAD", "HAPPY", "SAD">>
    /\ fnRet.weeklyStats.moodDistribution = << <<"SAD", 2>>, <<"HAPPY", 1>> >>

TypesOf(moods) == {moods[i].moodType : i \in 1..Len(moods)}

\* C15: the moodVariability given to MoodInsight.create is the number of
\* distinct mood types of the week divided by 5 (here in tenths), within [0, 1].
C15_VariabilityIsTypesOverFive ==
    /\ (FnDone("entries") /\ fnRet.insight # Null) =>
          /\ TotalMoodTypes * fnRet.insight.moodVariability
                = 10 * Cardinality(TypesOf(fnArg.moods))
          /\ fnRet.insight.moodVariability \in 0..10
    /\ (FnDone("stats") /\ fnRet.insight # Null) =>
          /\ TotalMoodTypes * fnRet.insight.moodVariability
                = 10 * Len(fnArg.stats.moodDistribution)
          /\ fnRet.insight.moodVariability \in 0..10

\* four entries of two types: variability 0.4
C15_TwoTypesInFourEntriesWitness ==
    /\ FnDone("entries")
    /\ Len(fnArg.moods) = 4
    /\ TypesOf(fnArg.moods) = {"CALM", "HAPPY"}
    /\ fnRet.insight # Null
    /\ fnRet.insight.moodVariability = 4


\* the step is a click on the enabled button by session s whose create
\* returned the record that is new in the table
CreatedOnRequest(s) ==
    /\ ButtonEnabled(s)
    /\ inflight[s] = Null
    /\ inflight'[s] # Null
    /\ inflight'[s].kind = "data"
    /\ insightStore' = insightStore \cup {inflight'[s].data}

\* C16: a MoodInsight record appears in the table only in a step that is a
\* generateAIInsight request, and every record of the table is in the table,
\* with the same fields, after every step.
C16_InsightsCreatedOnRequestAndKept ==
    [][/\ insightStore \subseteq insightStore'
       /\ insightStore' # insightStore => \E s \in Sessions : CreatedOnRequest(s)]_vars

\* the insight of an earlier week is still listed, unchanged, after the
\* insight of the next week has been created and both have been loaded
C16_TwoWeeksKeptWitness ==
    /\ Cardinality(insightStore) = 2
    /\ \A s \in Sessions : inflight[s] = Null
    /\ \E s \in Sessions :
          /\ Len(insights[s]) = 2
          /\ {insights[s][1], insights[s][2]} = insightStore
          /\ insights[s][1].weekStartDate > insights[s][2].weekStartDate


WellFormed(moods) ==
    SelectSeq(moods, LAMBDA m : m.intensity \in MinIntensity..MaxIntensity)

\* C17: an entry whose intensity is outside 1..10 contributes to none of
\* totalMoods, averageIntensity, moodDistribution and moodStreak: the
\* statistics are those of the well-formed entries alone.
C17_UnscaledEntriesSkipped ==
    FnDone("entries") =>
        LET kept == WellFormed(fnArg.moods)
            n == Len(kept)
            st == fnRet.weeklyStats
        IN  /\ st.totalMoods = n
            /\ st.averageIntensity
                  = (IF n = 0 THEN 0 ELSE MathRound(10 * IntensitySum(kept, n), n))
            /\ \A i \in 1..Len(st.moodDistribution) :
                  st.moodDistribution[i][2] = TypeCount(kept, st.moodDistribution[i][1])
            /\ st.moodStreak = Cardinality(DaysWithEntry(kept, 0..(4 * DaysPerWeek)))

NonEmptyInRange == FnDone("entries") /\ fnArg.moods # <<>> /\ AllInRange(fnArg.moods)

\* C18 as stated: no non-empty week of intensities in 1..10 has an average
\* strictly between 3 and 5.
C18_NoAverageBetweenThreeAndFive ==
    NonEmptyInRange =>
        ~(fnRet.weeklyStats.averageIntensity > 30 /\ fnRet.weeklyStats.averageIntensity < 50)

\* the part of the weekly score that is left once the base score and the
\* diversity and consistency adjustments are taken off (5 + I + D + C lies in
\* 1..9, so the clamp changes nothing)
IntensityPart ==
    fnRet.insight.weeklyScore - 5
        - SpecD(Len(fnRet.weeklyStats.moodDistribution))
        - SpecC(fnRet.weeklyStats.moodStreak)

\* C18 amended: for a non-empty week of intensities in 1..10 the intensity
\* adjustment of the weekly score is one of +2, +1, -2, 0, and it is 0 exactly
\* when the average is strictly between 3 and 5.
C18_NoAdjustmentExactlyInGap ==
    NonEmptyInRange =>
        LET a == fnRet.weeklyStats.averageIntensity
        IN  /\ IntensityPart \in {2, 1, -2, 0}
            /\ (IntensityPart = 0) <=> (a > 30 /\ a < 50)
            /\ (IntensityPart = 2) <=> (a >= 70)
            /\ (IntensityPart = -2) <=> (a <= 30)

\* one entry of intensity 4: average 4.0, score 5 + 0 - 1 - 1
C18_SingleEntryOfFourWitness ==
    /\ FnDone("entries")
    /\ Len(fnArg.moods) = 1
    /\ fnArg.moods[1].intensity = 4
    /\ fnRet.weeklyStats.averageIntensity = 40
    /\ fnRet.insight.weeklyScore = 3

\* C19: calculateWeeklyScore of the stats of an empty week is the base score 5.
C19_EmptyWeekScoresBase ==
    (FnDone("stats") /\ fnArg.stats = EmptyStats) => fnRet.weeklyScore = 5


\* the rule table of the specification: the sentence for a dominant mood and
\* an average intensity (in tenths), or none
SpecMoodRule(m, a) ==
    CASE m = "ANXIOUS" /\ a > 60 -> <<BreathingSentence>>
      [] m = "SAD" /\ a > 50 -> <<SupportSentence>>
      [] m = "HAPPY" /\ a > 70 -> <<SharingSentence>>
      [] m = "ENERGETIC" -> <<ChannelSentence>>
      [] m = "CALM" -> <<ReflectionSentence>>
      [] OTHER -> <<>>

\* C20: the recommendations hold at most one mood sentence, chosen by the
\* rule table; the daily-tracking reminder follows exactly when moodStreak < 3;
\* the text is the generic encouragement exactly when no rule matched and
\* moodStreak >= 3; it is never empty.
C20_RecommendationRules ==
    (FnDone("stats") /\ fnRet.insight # Null) =>
        LET rec == fnRet.insight.recommendations
            rule == SpecMoodRule(fnRet.insight.dominantMood, fnArg.stats.averageIntensity)
            d == fnArg.stats.moodStreak
        IN  /\ rec # <<>>
            /\ (rec = <<KeepUpSentence>>) <=> (rule = <<>> /\ d >= 3)
            /\ (\E i \in 1..Len(rec) : rec[i] = TrackDailySentence) <=> (d < 3)
            /\ rec # <<KeepUpSentence>> =>
                  rec = rule \o (IF d < 3 THEN <<TrackDailySentence>> ELSE <<>>)

\* dominant mood HAPPY at average exactly 7.0 with entries on three days:
\* no rule matches and no reminder is due
C20_HappyAtSevenWitness ==
    /\ FnDone("stats")
    /\ fnRet.insight # Null
    /\ fnRet.insight.dominantMood = "HAPPY"
    /\ fnArg.stats.averageIntensity = 70
    /\ fnArg.stats.moodStreak = 3
    /\ fnRet.insight.recommendations = <<KeepUpSentence>>


\* C21 as stated: the intensity word is given by the three bands "below 5",
\* "from 5 to 6" and "7 or more" for every average the statistics produce.
C21_IntensityWordBands ==
    NonEmptyInRange =>
        LET a == fnRet.weeklyStats.averageIntensity
            w == fnRet.insight.insights.intensityWord
        IN  /\ (w = "mild") <=> (a < 50)
            /\ (w = "moderate") <=> (a >= 50 /\ a <= 60)
            /\ (w = "strong") <=> (a >= 70)

\* C21 amended: 'mild' below 5, 'moderate' from 5 up to but not including 7
\* (6.1 .. 6.9 included), 'strong' from 7.
C21_IntensityWordHalfOpenBands ==
    NonEmptyInRange =>
        LET a == fnRet.weeklyStats.averageIntensity
            w == fnRet.insight.insights.intensityWord
        IN  /\ w \in {"mild", "moderate", "strong"}
            /\ (w = "mild") <=> (a < 50)
            /\ (w = "moderate") <=> (a >= 50 /\ a < 70)
            /\ (w = "strong") <=> (a >= 70)

\* entries of intensity 6 and 7: average 6.5, called moderate
C21_SixAndAHalfWitness ==
    /\ FnDone("entries")
    /\ [i \in 1..Len(fnArg.moods) |-> fnArg.moods[i].intensity] = <<6, 7>>
    /\ fnRet.weeklyStats.averageIntensity = 65
    /\ fnRet.insight.insights.intensityWord = "moderate"


\* C30: the base score plus the three adjustments is in 1..9 when
\* calculateWeeklyScore clamps it, so the clamp returns it unchanged, and no
\* record handed to MoodInsight.create has weeklyScore = 10.
C30_ClampNeverActs ==
    /\ FnDone("stats") =>
          /\ fnRet.scoreBeforeClamp \in 1..9
          /\ fnRet.weeklyScore = fnRet.scoreBeforeClamp
          /\ fnRet.insight # Null => fnRet.insight.weeklyScore \in 1..9
    /\ (FnDone("entries") /\ fnRet.insight # Null) => fnRet.insight.weeklyScore \in 1..9

\* the highest band of each adjustment at once: 5 + 2 + 1 + 1
C30_AllHighestBandsWitness ==
    /\ FnDone("stats")
    /\ fnArg.stats.averageIntensity = 10 * MaxIntensity
    /\ Len(fnArg.stats.moodDistribution) = TotalMoodTypes
    /\ fnArg.stats.moodStreak = DaysPerWeek
    /\ fnRet.scoreBeforeClamp = 9
    /\ fnRet.weeklyScore = 9


\* the moodColor enum of the Mood model and the documented pairing
MoodColors == {"YELLOW", "BLUE", "ORANGE", "GREEN", "PURPLE"}

DocumentedColor(m) ==
    CASE m = "HAPPY" -> "YELLOW"
      [] m = "SAD" -> "BLUE"
      [] m = "ENERGETIC" -> "ORANGE"
      [] m = "CALM" -> "GREEN"
      [] m = "ANXIOUS" -> "PURPLE"

Submitted == FnDone("submit") /\ fnRet.sent

\* C23: the entry handleSubmit sends to Mood.create carries the moodColor the
\* documented mapping pairs with its moodType, a member of the moodColor enum.
C23_SentColorIsDocumentedColor ==
    Submitted =>
        /\ fnRet.moodEntry.moodColor = DocumentedColor(fnRet.moodEntry.moodType)
        /\ fnRet.moodEntry.moodColor \in MoodColors

\* C29: the entry handleSubmit sends to Mood.create has the userId of the
\* signed-in user who submitted it.
C29_SentUserIdIsSubmitter ==
    Submitted => fnRet.moodEntry.userId = fnArg.user


\* C28: splitting the friendshipId on '-' gives back the requesterId and the
\* addresseeId it was built from, for all ids, ids containing '-' included.
C28_FriendshipIdRoundTrip ==
    FnDone("friendshipId") =>
        /\ fnRet.key.requesterId = fnArg.requesterId
        /\ fnRet.key.addresseeId = fnArg.addresseeId


\* a step changes the status of a stored friendship from `from` to `to`
StatusChanges(from, to) ==
    \E f \in friendshipStore, g \in friendshipStore' :
        /\ f.requesterId = g.requesterId
        /\ f.addresseeId = g.addresseeId
        /\ f.status = from
        /\ g.status = to

C27_PendingRequestsAreReceived ==
    \A u \in FUsers :
        \A k \in 1..Len(friendsList[u].pendingRequests) :
            LET request == friendsList[u].pendingRequests[k]
            IN  /\ request.friendshipStatus = "PENDING"
                /\ request.friendshipId = FriendshipIdOf(request.userId, u)


\* C25: while the trimmed search query is shorter than 2 characters,
\* searchResults is empty, whatever request completes.
C25_ShortQueryShowsNoResults ==
    (findFriends # Null /\ Len(Trim(findFriends.searchQuery)) < 2) =>
        findFriends.searchResults = <<>>

\* the stored friendships between the current user and user o
Between(o) ==
    {f \in friendshipStore :
        \/ f.requesterId = Me /\ f.addresseeId = o
        \/ f.requesterId = o /\ f.addresseeId = Me}

MappedStatus(f) ==
    CASE f.status = "ACCEPTED" -> "FRIENDS"
      [] f.status = "BLOCKED" -> "BLOCKED"
      [] f.status = "PENDING" /\ f.requesterId = Me -> "PENDING_SENT"
      [] f.status = "PENDING" /\ f.addresseeId = Me -> "PENDING_RECEIVED"
      [] OTHER -> "NONE"

\* C26: a search result for a user with a stored friendship carries the status
\* mapped from such a record; NONE is given only to users with no friendship
\* or a DECLINED one.
C26_ResultsCarryStoredStatus ==
    findFriends # Null =>
        \A k \in 1..Len(findFriends.searchResults) :
            LET result == findFriends.searchResults[k]
            IN  /\ Between(result.userId) # {} =>
                      \E f \in Between(result.userId) :
                          result.friendshipStatus = MappedStatus(f)
                /\ result.friendshipStatus = "NONE" =>
                      \A f \in Between(result.userId) : f.status = "DECLINED"


\* the users whose friendship with the current user is stored as ACCEPTED
AcceptedFriends ==
    {u \in FeedUsers :
        \E f \in friendshipStore :
            /\ f.status = "ACCEPTED"
            /\ \/ f.requesterId = Me /\ f.addresseeId = u
               \/ f.requesterId = u /\ f.addresseeId = Me}

\* C22: with feedType 'public' or 'friends' and no load under way, every mood
\* in the MoodFeed list is not private and, for 'friends', is an accepted
\* friend's.
C22_FeedShowsOnlyPublicMoods ==
    (/\ moodFeed # Null
     /\ moodFeed.feedType \in {"public", "friends"}
     /\ moodFeed.loads = {}
     /\ ~moodFeed.isLoading) =>
        \A k \in 1..Len(moodFeed.moods) :
            /\ ~moodFeed.moods[k].isPrivate
            /\ moodFeed.feedType = "friends" =>
                  moodFeed.moods[k].userId \in AcceptedFriends

====
